---- MODULE Spec2Model ----
(***************************************************************************)
(* Model of main.py: the order execution sequence (run_order), the         *)
(* position monitor (position_monitor, _cancel_algo) and the in-memory log *)
(* store with its fan-out to stream subscribers (push_log, log_stream).    *)
(*                                                                         *)
(* Spec    : one run_order thread, the position_monitor thread and the     *)
(*           exchange they talk to, interleaved at every gateway call.     *)
(* SpecBus : push_log called from two threads, the event loop running the  *)
(*           scheduled put_nowait callbacks, log_stream subscribers.       *)
(* SpecRun : one run_order thread and the exchange, the thread being       *)
(*           scheduled fairly.                                             *)
(***************************************************************************)
EXTENDS Integers, Sequences, FiniteSets, TLC

\* ---------------------------------------------------------------- bounds
\* status polls one run may issue
MaxPolls == 2
\* monitor ticks
MaxTicks == 3

\* entries appended in one explored run of the log store
MaxAppends == 2
\* queues log_stream may create
MaxQueues == 2
\* entries the event_generators take from their queues in one explored run
MaxGets == 2

\* ------------------------------------------------------------- constants
\* line 32: entries _terminal_logs retains
LOG_MAX == 200
\* line 324: maxsize of a subscriber queue
QUEUE_MAXSIZE == 200
\* line 70: entries of initial_logs
BACKFILL == 50
\* units of the entry quantity; a partial fill executes one unit
Quantity == 2

\* lines 44-47: the shared configuration; amounts are in USDT, prices and
\* offsets in thousandths of a USDT
LEVERAGE == 10
AMOUNT == 1650
TP_OFFSET == 1000000
SL_OFFSET == 300000

Sides == {"BUY", "SELL"}
\* the forms posted to /place-order in the explored runs; a field left out
\* of the form arrives as 0
Requests ==
    { [side |-> "BUY",  limit_price |-> 60000000, margin |-> 1000,
       tp_offset |-> 1000000, sl_offset |-> 300000],
      [side |-> "SELL", limit_price |-> 60000000, margin |-> 0,
       tp_offset |-> 0, sl_offset |-> 0],
      [side |-> "SELL", limit_price |-> 25000128, margin |-> 1001,
       tp_offset |-> 1500000, sl_offset |-> 200000] }
\* order statuses the exchange reports for the entry order
Statuses == {"NEW", "PARTIALLY_FILLED", "FILLED", "CANCELED", "REJECTED", "EXPIRED"}
\* outcomes of a gateway call that raises
Errors == {"ClientError", "Exception"}

VARIABLES
    \* ---- run_order (one thread)
    run_pc,         \* position in run_order
    side,           \* argument side
    limit_price,    \* argument limit_price
    amount,         \* argument amount
    tp_offset,      \* argument tp_offset
    sl_offset,      \* argument sl_offset
    attempt,        \* local attempt
    run_calls,      \* gateway calls issued by the run, with their outcome
    run_reqs,       \* parameters of the orders the run submitted, in order
    run_log,        \* entries the run pushed to the log, in order
    \* ---- exchange
    entry_status,   \* status of the run's entry order ("none" before submit)
    executedQty,    \* filled units of the entry order
    positionAmt,    \* signed position of SYMBOL
    open_algos,     \* open conditional orders (algoId)
    \* ---- position_monitor (one thread)
    mon_pc,         \* position in the monitor loop
    ticks,          \* ticks started
    pos_size,       \* local pos_size of the current tick
    algo_orders,    \* local algo_orders of the current tick
    todo,           \* rest of the for loop over algo_orders
    prev_pos_size,  \* local prev_pos_size (-1 stands for None)
    mon_calls,      \* gateway calls of the current tick, with outcome and
                    \* the exchange position at the moment of the call
    mon_log,        \* entries the monitor pushed in the current tick
    tick_history,   \* outcome and size read of every finished tick
    \* ---- log store and fan-out
    terminal_logs,  \* _terminal_logs; an entry is the number of its append
    appended,       \* entries appended so far
    appends_left,   \* appends the run may still make
    log_subscribers,\* _log_subscribers, a list of queues
    queue,          \* content of each asyncio.Queue
    loop_ready,     \* callbacks call_soon_threadsafe scheduled, in order
    event_loop,     \* "running" or "closed"
    pl_pc,          \* position of each thread in push_log ("idle" outside)
    pl_entry,       \* local entry of each thread in push_log
    pl_todo,        \* rest of the loop over list(_log_subscribers)
    pl_raised,      \* did an exception leave push_log in this thread
    initial_logs,   \* initial_logs handed to the last rendered page
    sub_at,         \* value of appended when each queue subscribed
    delivered,      \* entries put on each queue, in order
    dropped,        \* entries put_nowait refused, with the queue length
    consumed        \* entries event_generator took from each queue

args == <<side, limit_price, amount, tp_offset, sl_offset>>
run_vars == <<run_pc, args, attempt, run_calls, run_reqs, run_log>>
ex_vars  == <<entry_status, executedQty, positionAmt, open_algos>>
mon_vars == <<mon_pc, ticks, pos_size, algo_orders, todo, prev_pos_size, mon_calls, mon_log,
              tick_history>>
core_vars == <<run_vars, ex_vars, mon_vars>>
bus_vars == <<terminal_logs, appended, appends_left, log_subscribers, queue, loop_ready,
              event_loop, pl_pc, pl_entry, pl_todo, pl_raised, initial_logs, sub_at,
              delivered, dropped, consumed>>
vars == <<core_vars, bus_vars>>

\* ------------------------------------------------------------ helpers
Abs(x) == IF x < 0 THEN -x ELSE x

\* exit_side(side)
exit_side(s) == IF s = "BUY" THEN "SELL" ELSE "BUY"

\* an entry of the log as one producer sees it
Entry(level, msg) == [level |-> level, msg |-> msg]

\* a sequence of push_log calls by one producer
Logged(log, entries) == log \o entries

\* a gateway call of the run and what it returned or raised
Call(op, res) == [op |-> op, res |-> res]

\* algoId the exchange assigns to the run's conditional orders
AlgoId(type) == IF type = "TAKE_PROFIT" THEN 1 ELSE 2
AlgoType(id) == IF id = 1 THEN "TAKE_PROFIT" ELSE "STOP"

\* the except handlers of run_order
HandlerSilent(err) == <<>>

Handler(err) ==
    IF err = "ClientError"
    THEN <<Entry("ERROR", "Binance error"), Entry("ERROR", "separator")>>
    ELSE <<Entry("ERROR", "Unexpected error"), Entry("ERROR", "separator")>>

\* ------------------------------------------------------------ run_order
\* floor(n * 10^k / d) and the remainder, one decimal digit at a time
RECURSIVE Scaled(_, _, _)
Scaled(n, d, k) ==
    IF k = 0 THEN [q |-> n \div d, r |-> n % d]
    ELSE LET s == Scaled(n, d, k - 1)
         IN  [q |-> s.q * 10 + (s.r * 10) \div d, r |-> (s.r * 10) % d]

\* the digits a fixed-point format prints for quotient s.q, remainder s.r
\* of a division by d: the nearest value, an exact tie to the even one
RoundHalfEven(s, d) ==
    IF 2 * s.r > d \/ (2 * s.r = d /\ s.q % 2 = 1) THEN s.q + 1 ELSE s.q

\* fmt_price(p): p in thousandths, the result in hundredths
fmt_price(p) == RoundHalfEven(Scaled(p, 10, 0), 10)

\* fmt_qty(q): q a quotient of USDT by thousandths of a USDT, the result
\* in thousandths
fmt_qty(q) == RoundHalfEven(Scaled(q.num, q.den, 6), q.den)

\* line 148
quantity(a, p) == [num |-> a * LEVERAGE, den |-> p]

\* line 149
take_profit_above(s, p, off) == p + off

take_profit(s, p, off) == IF s = "BUY" THEN p + off ELSE p - off

\* line 150
stop_loss(s, p, off) == IF s = "BUY" THEN p - off ELSE p + off

\* lines 201-202
tp_exec(s, tp) == IF s = "BUY" THEN tp - 5000 ELSE tp + 5000
sl_exec(s, sl) == IF s = "BUY" THEN sl - 10000 ELSE sl + 10000

\* lines 170-175: the parameters of the entry order
EntryRequest ==
    [type |-> "LIMIT", side |-> side,
     quantity |-> fmt_qty(quantity(amount, limit_price)),
     price |-> fmt_price(limit_price), triggerPrice |-> 0, reduceOnly |-> FALSE]

\* lines 205-216 and 221-232: the parameters of a conditional order
AlgoRequestLeveragedTwice(type) ==
    LET trigger == IF type = "TAKE_PROFIT" THEN take_profit(side, limit_price, tp_offset)
                                           ELSE stop_loss(side, limit_price, sl_offset)
    IN  [type |-> type, side |-> exit_side(side),
         quantity |-> fmt_qty(quantity(amount * LEVERAGE, limit_price)),
         price |-> fmt_price(IF type = "TAKE_PROFIT" THEN tp_exec(side, trigger)
                                                     ELSE sl_exec(side, trigger)),
         triggerPrice |-> fmt_price(trigger), reduceOnly |-> TRUE]

AlgoRequest(type) ==
    LET trigger == IF type = "TAKE_PROFIT" THEN take_profit(side, limit_price, tp_offset)
                                           ELSE stop_loss(side, limit_price, sl_offset)
    IN  [type |-> type, side |-> exit_side(side),
         quantity |-> fmt_qty(quantity(amount, limit_price)),
         price |-> fmt_price(IF type = "TAKE_PROFIT" THEN tp_exec(side, trigger)
                                                     ELSE sl_exec(side, trigger)),
         triggerPrice |-> fmt_price(trigger), reduceOnly |-> TRUE]

\* lines 241-246: where a gateway error raised at position pc leaves the run
OnErrorRetries(pc) == pc

OnError(pc) == "aborted_error"

\* lines 182-197: does the fill-wait loop give up after this many polls
FillTimedOutAtLimit(n) == n >= MaxPolls

FillTimedOut(n) == FALSE

\* lines 152-160: the banner pushed before the try block
Banner ==
    <<Entry("INFO", "separator"), Entry("INFO", "Starting order sequence"),
      Entry("INFO", "Symbol"), Entry("INFO", "Margin"), Entry("INFO", "Entry"),
      Entry("INFO", "Quantity"), Entry("INFO", "TP target"), Entry("INFO", "SL target"),
      Entry("INFO", "separator")>>

\* lines 188-197: what the fill-wait loop does with a polled status
\* "break" leaves the loop, "return" ends the run, "sleep" polls again
FillWaitBreaksLoose(status) ==
    IF status \in {"FILLED", "PARTIALLY_FILLED"} THEN "break"
    ELSE IF status \in {"CANCELED", "REJECTED", "EXPIRED"} THEN "return"
    ELSE "sleep"

FillWaitIgnoresRejected(status) ==
    IF status = "FILLED" THEN "break"
    ELSE IF status \in {"CANCELED", "EXPIRED"} THEN "return"
    ELSE "sleep"

FillWaitAbortsOnPartial(status) ==
    IF status = "FILLED" THEN "break"
    ELSE IF status \in {"CANCELED", "REJECTED", "EXPIRED", "PARTIALLY_FILLED"} THEN "return"
    ELSE "sleep"

FillWait(status) ==
    IF status = "FILLED" THEN "break"
    ELSE IF status \in {"CANCELED", "REJECTED", "EXPIRED"} THEN "return"
    ELSE "sleep"

\* lines 187-196 and 200-204: the entries pushed for one polled status
PollLog(status) ==
    <<Entry("INFO", "Poll")>> \o
    (IF FillWait(status) = "break"
        THEN <<Entry("SUCCESS", "Order FILLED"), Entry("INFO", "[4/4] Placing TP and SL"),
               Entry("INFO", "TP")>>
     ELSE IF FillWait(status) = "return"
        THEN <<Entry("ERROR", "Order ended - aborting")>>
     ELSE (IF status = "PARTIALLY_FILLED"
              THEN <<Entry("WARN", "Partially filled")>> ELSE <<>>)
          \o <<Entry("INFO", "Next poll")>>)

\* place_order, lines 272-280: the defaults are filled in and a thread is
\* started on run_order(side, limit_price, amount, tp, sl)
StartOrder ==
    /\ run_pc = "idle"
    /\ \E form \in Requests :
         /\ side' = form.side
         /\ limit_price' = form.limit_price
         /\ amount' = IF form.margin > 0 THEN form.margin ELSE AMOUNT
         /\ tp_offset' = IF form.tp_offset > 0 THEN form.tp_offset ELSE TP_OFFSET
         /\ sl_offset' = IF form.sl_offset > 0 THEN form.sl_offset ELSE SL_OFFSET
    /\ run_pc' = "leverage"
    /\ run_log' = Logged(run_log, Banner)
    /\ UNCHANGED <<attempt, run_calls, run_reqs, ex_vars, mon_vars, bus_vars>>

\* Step 1, lines 164-166
SetLeverage ==
    /\ run_pc = "leverage"
    /\ \E res \in {"ok"} \cup Errors :
         /\ run_calls' = Append(run_calls, Call("change_leverage", res))
         /\ IF res = "ok"
              THEN /\ run_pc' = "entry"
                   /\ run_log' = Logged(run_log, <<Entry("INFO", "[1/4] Setting leverage"),
                                                   Entry("SUCCESS", "Leverage set")>>)
              ELSE /\ run_pc' = OnError(run_pc)
                   /\ run_log' = Logged(run_log, <<Entry("INFO", "[1/4] Setting leverage")>>
                                                 \o Handler(res))
    /\ UNCHANGED <<args, attempt, run_reqs, ex_vars, mon_vars, bus_vars>>

\* Step 2, lines 169-180
PlaceEntry ==
    /\ run_pc = "entry"
    /\ \E res \in {"ok"} \cup Errors :
         /\ run_calls' = Append(run_calls, Call("new_order", res))
         /\ run_reqs' = Append(run_reqs, EntryRequest)
         /\ IF res = "ok"
              THEN /\ run_pc' = "poll"
                   /\ entry_status' = "NEW"
                   /\ run_log' = Logged(run_log, <<Entry("INFO", "[2/4] Placing LIMIT"),
                                                   Entry("SUCCESS", "Entry order placed"),
                                                   Entry("INFO", "[3/4] Waiting for fill")>>)
              ELSE /\ run_pc' = OnError(run_pc)
                   /\ entry_status' = entry_status
                   /\ run_log' = Logged(run_log, <<Entry("INFO", "[2/4] Placing LIMIT")>>
                                                 \o Handler(res))
    /\ UNCHANGED <<args, attempt, executedQty, positionAmt, open_algos, mon_vars, bus_vars>>

\* Step 3, lines 182-197: one iteration of the fill-wait loop
PollStatus ==
    /\ run_pc = "poll"
    /\ attempt < MaxPolls
    /\ attempt' = attempt + 1
    /\ \E res \in {entry_status} \cup Errors :
         /\ run_calls' = Append(run_calls, Call("query_order", res))
         /\ IF res \in Errors
              THEN /\ run_pc' = OnError(run_pc)
                   /\ run_log' = Logged(run_log, Handler(res))
              ELSE /\ run_pc' = CASE FillWait(res) = "break"  -> "place_tp"
                                  [] FillWait(res) = "return" -> "aborted_status"
                                  [] FillTimedOut(attempt')   -> "aborted_status"
                                  [] OTHER                    -> "poll"
                   /\ run_log' = Logged(run_log, PollLog(res))
    /\ UNCHANGED <<args, run_reqs, ex_vars, mon_vars, bus_vars>>

\* Step 4, lines 205-220: the take-profit leg
PlaceTakeProfit ==
    /\ run_pc = "place_tp"
    /\ \E res \in {"ok"} \cup Errors :
         /\ run_calls' = Append(run_calls, Call("algo_TAKE_PROFIT", res))
         /\ run_reqs' = Append(run_reqs, AlgoRequest("TAKE_PROFIT"))
         /\ IF res = "ok"
              THEN /\ run_pc' = "place_sl"
                   /\ open_algos' = open_algos \cup {AlgoId("TAKE_PROFIT")}
                   /\ run_log' = Logged(run_log, <<Entry("SUCCESS", "Take Profit placed"),
                                                   Entry("INFO", "SL")>>)
              ELSE /\ run_pc' = OnError(run_pc)
                   /\ open_algos' = open_algos
                   /\ run_log' = Logged(run_log, Handler(res))
    /\ UNCHANGED <<args, attempt, entry_status, executedQty, positionAmt, mon_vars, bus_vars>>

\* Step 4, lines 221-239: the stop-loss leg and the summary
PlaceStopLoss ==
    /\ run_pc = "place_sl"
    /\ \E res \in {"ok"} \cup Errors :
         /\ run_calls' = Append(run_calls, Call("algo_STOP", res))
         /\ run_reqs' = Append(run_reqs, AlgoRequest("STOP"))
         /\ IF res = "ok"
              THEN /\ run_pc' = "complete"
                   /\ open_algos' = open_algos \cup {AlgoId("STOP")}
                   /\ run_log' = Logged(run_log, <<Entry("SUCCESS", "Stop Loss placed"),
                                                   Entry("INFO", "separator"),
                                                   Entry("SUCCESS", "ALL ORDERS COMPLETE"),
                                                   Entry("SUCCESS", "Entry TP SL ids"),
                                                   Entry("INFO", "separator")>>)
              ELSE /\ run_pc' = OnError(run_pc)
                   /\ open_algos' = open_algos
                   /\ run_log' = Logged(run_log, Handler(res))
    /\ UNCHANGED <<args, attempt, entry_status, executedQty, positionAmt, mon_vars, bus_vars>>

\* ------------------------------------------------------------- exchange
\* direction in which a fill of the entry order moves the position
Sign(s) == IF s = "BUY" THEN 1 ELSE -1

\* the entry order executes q more units
ExchangeFill ==
    /\ entry_status \in {"NEW", "PARTIALLY_FILLED"}
    /\ \E q \in 1..(Quantity - executedQty) :
         /\ executedQty' = executedQty + q
         /\ positionAmt' = positionAmt + Sign(side) * q
         /\ entry_status' = IF executedQty + q = Quantity THEN "FILLED"
                                                          ELSE "PARTIALLY_FILLED"
    /\ UNCHANGED <<open_algos, run_vars, mon_vars, bus_vars>>

\* the entry order ends without filling completely
ExchangeEndsEntry ==
    /\ entry_status \in {"NEW", "PARTIALLY_FILLED"}
    /\ \E st \in {"CANCELED", "REJECTED", "EXPIRED"} :
         /\ st = "REJECTED" => entry_status = "NEW"
         /\ entry_status' = st
    /\ UNCHANGED <<executedQty, positionAmt, open_algos, run_vars, mon_vars, bus_vars>>

\* an open reduce-only conditional order triggers and closes the position
ExchangeTriggers ==
    /\ positionAmt # 0
    /\ \E a \in open_algos :
         /\ open_algos' = open_algos \ {a}
         /\ positionAmt' = 0
    /\ UNCHANGED <<entry_status, executedQty, run_vars, mon_vars, bus_vars>>

\* the position is closed by hand
ExchangeClosesPosition ==
    /\ positionAmt # 0
    /\ positionAmt' = 0
    /\ UNCHANGED <<entry_status, executedQty, open_algos, run_vars, mon_vars, bus_vars>>

\* ----------------------------------------------------- position_monitor
\* a gateway call of the monitor: what it returned or raised and the
\* exchange position at the moment the exchange served it
MonCall(op, id, res) == [op |-> op, id |-> id, res |-> res, pos |-> positionAmt]

\* the open conditional orders as the list openAlgoOrders returns
RECURSIVE AsList(_)
AsList(S) ==
    IF S = {} THEN <<>>
    ELSE LET m == CHOOSE x \in S : \A y \in S : x <= y
         IN  <<m>> \o AsList(S \ {m})

\* line 121: the cleanup condition
CleanupWheneverOrders(size, orders) == orders # <<>>

CleanupNeeded(size, orders) == size = 0 /\ orders # <<>>

\* lines 76-80: does a failed DELETE leave _cancel_algo as an exception
CancelRaisesOnError(res) == res # "ok"

CancelRaises(res) == FALSE

\* lines 78 and 80: the entry _cancel_algo pushes
CancelLog(res) ==
    IF res = "ok" THEN Entry("WARN", "Auto-cancelled algo")
                  ELSE Entry("ERROR", "Failed to auto-cancel algo")

\* lines 132-136: the transition entries
TransitionLogFromNone(prev, size) ==
    IF prev <= 0 /\ size > 0 THEN <<Entry("INFO", "Position OPENED")>>
    ELSE IF prev > 0 /\ size = 0 THEN <<Entry("SUCCESS", "Position CLOSED")>>
    ELSE <<>>

TransitionLog(prev, size) ==
    IF prev = -1 THEN <<>>
    ELSE IF prev = 0 /\ size > 0 THEN <<Entry("INFO", "Position OPENED")>>
    ELSE IF prev > 0 /\ size = 0 THEN <<Entry("SUCCESS", "Position CLOSED")>>
    ELSE <<>>

\* lines 96-97 and 140-141: where the except clause leaves the monitor
AfterTickError == "sleep"

\* lines 94 and 138-141: the stored previous size after a tick that raised
PrevAfterErrorForgets(prev) == -1

PrevAfterError(prev) == prev

\* line 129: the entry pushed when the for loop over algo_orders has run;
\* rest is what the loop has still to visit
AllCancelledLogEveryOrder(rest) == <<Entry("SUCCESS", "All orphan algo orders cancelled")>>

AllCancelledLog(rest) ==
    IF rest = <<>> THEN <<Entry("SUCCESS", "All orphan algo orders cancelled")>> ELSE <<>>

\* the outcome of a finished tick: did it raise, and the size it read
Tick(ok, size) == [ok |-> ok, size |-> size]

\* startup: the monitor thread starts, line 90
MonitorStart ==
    /\ mon_pc = "start"
    /\ mon_pc' = "sleep"
    /\ mon_log' = Logged(mon_log, <<Entry("INFO", "Position monitor started")>>)
    /\ UNCHANGED <<ticks, pos_size, algo_orders, todo, prev_pos_size, mon_calls,
                   tick_history, run_vars, ex_vars, bus_vars>>

\* lines 98-106: a tick begins with the position read
GetPosition ==
    /\ mon_pc = "sleep"
    /\ ticks < MaxTicks
    /\ ticks' = ticks + 1
    /\ mon_log' = <<>>
    /\ algo_orders' = <<>>
    /\ todo' = <<>>
    /\ \E res \in {"ok", "Exception"} :
         /\ mon_calls' = <<MonCall("GET positionRisk", 0, res)>>
         /\ IF res = "ok"
              THEN /\ pos_size' = Abs(positionAmt)
                   /\ mon_pc' = "get_algo"
                   /\ prev_pos_size' = prev_pos_size
                   /\ tick_history' = tick_history
              ELSE /\ pos_size' = 0
                   /\ mon_pc' = AfterTickError
                   /\ prev_pos_size' = PrevAfterError(prev_pos_size)
                   /\ tick_history' = Append(tick_history, Tick(FALSE, -1))
    /\ UNCHANGED <<run_vars, ex_vars, bus_vars>>

\* lines 109-122: the conditional-order read and the cleanup decision
GetAlgoOrders ==
    /\ mon_pc = "get_algo"
    /\ \E res \in {"ok", "Exception"} :
         /\ mon_calls' = Append(mon_calls, MonCall("GET openAlgoOrders", 0, res))
         /\ IF res = "ok"
              THEN /\ algo_orders' = AsList(open_algos)
                   /\ IF CleanupNeeded(pos_size, AsList(open_algos))
                        THEN /\ todo' = AsList(open_algos)
                             /\ mon_pc' = "cancel"
                             /\ mon_log' = Logged(mon_log,
                                  <<Entry("WARN", "Position is CLOSED but algo orders still open")>>)
                        ELSE /\ todo' = <<>>
                             /\ mon_pc' = "transition"
                             /\ mon_log' = mon_log
                   /\ prev_pos_size' = prev_pos_size
                   /\ tick_history' = tick_history
              ELSE /\ algo_orders' = <<>>
                   /\ todo' = <<>>
                   /\ mon_pc' = AfterTickError
                   /\ mon_log' = mon_log
                   /\ prev_pos_size' = PrevAfterError(prev_pos_size)
                   /\ tick_history' = Append(tick_history, Tick(FALSE, -1))
    /\ UNCHANGED <<ticks, pos_size, run_vars, ex_vars, bus_vars>>

\* lines 123-129 with _cancel_algo: one iteration of the for loop
CancelOrphan ==
    /\ mon_pc = "cancel"
    /\ todo # <<>>
    /\ LET o == Head(todo) IN
       \E res \in {"ok", "Exception"} :
         /\ res = "ok" => o \in open_algos
         /\ mon_calls' = Append(mon_calls, MonCall("DELETE algoOrder", o, res))
         /\ open_algos' = IF res = "ok" THEN open_algos \ {o} ELSE open_algos
         /\ IF CancelRaises(res)
              THEN /\ todo' = <<>>
                   /\ mon_pc' = AfterTickError
                   /\ mon_log' = Logged(mon_log, <<Entry("INFO", "Cancelling orphan")>>)
                   /\ prev_pos_size' = PrevAfterError(prev_pos_size)
                   /\ tick_history' = Append(tick_history, Tick(FALSE, -1))
              ELSE /\ todo' = Tail(todo)
                   /\ mon_pc' = IF Tail(todo) = <<>> THEN "transition" ELSE "cancel"
                   /\ mon_log' = Logged(mon_log,
                        <<Entry("INFO", "Cancelling orphan"), CancelLog(res)>>
                        \o AllCancelledLog(Tail(todo)))
                   /\ prev_pos_size' = prev_pos_size
                   /\ tick_history' = tick_history
    /\ UNCHANGED <<ticks, pos_size, algo_orders,
                   entry_status, executedQty, positionAmt, run_vars, bus_vars>>

\* lines 132-138: the transition entries and the stored previous size
LogTransition ==
    /\ mon_pc = "transition"
    /\ mon_log' = Logged(mon_log, TransitionLog(prev_pos_size, pos_size))
    /\ prev_pos_size' = pos_size
    /\ mon_pc' = "sleep"
    /\ tick_history' = Append(tick_history, Tick(TRUE, pos_size))
    /\ UNCHANGED <<ticks, pos_size, algo_orders, todo, mon_calls, run_vars, ex_vars, bus_vars>>

\* ------------------------------------------------ log store and fan-out
Threads == {"run_order", "position_monitor", "index"}
Queues == 1..MaxQueues

Max(a, b) == IF a > b THEN a ELSE b

\* the entries numbered a..b, in order
Range(a, b) == [i \in 1..Max(b - a + 1, 0) |-> a + i - 1]

\* remove the first occurrence of x from a list (list.remove)
RECURSIVE Remove(_, _)
Remove(list, x) ==
    IF list = <<>> THEN <<>>
    ELSE IF Head(list) = x THEN Tail(list)
    ELSE <<Head(list)>> \o Remove(Tail(list), x)

InList(list, x) == \E i \in 1..Len(list) : list[i] = x

\* line 70: _terminal_logs[-50:]
BackfillOldest(log) == SubSeq(log, 1, IF Len(log) < BACKFILL THEN Len(log) ELSE BACKFILL)

Backfill(log) == SubSeq(log, Max(Len(log) - BACKFILL, 0) + 1, Len(log))

\* line 32: the eviction test
OverLimit(log) == Len(log) > LOG_MAX

\* asyncio.Queue.full() for the queue of line 324
QueueFullEarly(qu) == Len(qu) >= QUEUE_MAXSIZE - 1

QueueFull(qu) == Len(qu) >= QUEUE_MAXSIZE

\* q.put_nowait(entry): QueueFull is raised inside the loop's callback and
\* the queue is left as it was
PutNowaitEvicts(qu, e) == IF QueueFull(qu) THEN Append(Tail(qu), e) ELSE Append(qu, e)

PutNowait(qu, e) == IF QueueFull(qu) THEN qu ELSE Append(qu, e)

\* lines 36-39: does a failing call_soon_threadsafe leave push_log as an exception
BroadcastRaisesWhenClosed(loop) == loop = "closed"

BroadcastRaises(loop) == FALSE

\* what is left of the ready callbacks once the loop has run the first one,
\* whether or not it raised
AfterCallbackStopsOnError(ready, raised) == IF raised THEN <<>> ELSE Tail(ready)

AfterCallback(ready, raised) == Tail(ready)

\* the position after push_log returns: index goes on to render the page
Returned(t) == IF t = "index" THEN "render" ELSE "idle"

\* the event loop thread is not inside the index handler
LoopFree == pl_pc["index"] = "idle"

\* lines 30-31: the entry is built and appended
PushLogAppend(t) ==
    /\ pl_pc[t] = "idle"
    /\ appends_left > 0
    /\ appends_left' = appends_left - 1
    /\ appended' = appended + 1
    /\ terminal_logs' = Append(terminal_logs, appended + 1)
    /\ pl_entry' = [pl_entry EXCEPT ![t] = appended + 1]
    /\ pl_pc' = [pl_pc EXCEPT ![t] = "check"]
    /\ UNCHANGED <<log_subscribers, queue, loop_ready, event_loop, pl_todo, pl_raised,
                   initial_logs, sub_at, delivered, dropped, consumed, core_vars>>

\* line 32: len(_terminal_logs) > 200
PushLogCheck(t) ==
    /\ pl_pc[t] = "check"
    /\ pl_pc' = [pl_pc EXCEPT ![t] = IF OverLimit(terminal_logs) THEN "pop" ELSE "snapshot"]
    /\ UNCHANGED <<terminal_logs, appended, appends_left, log_subscribers, queue,
                   loop_ready, event_loop, pl_entry, pl_todo, pl_raised, initial_logs,
                   sub_at, delivered, dropped, consumed, core_vars>>

\* line 33: _terminal_logs.pop(0)
PushLogPop(t) ==
    /\ pl_pc[t] = "pop"
    /\ terminal_logs' = Tail(terminal_logs)
    /\ pl_pc' = [pl_pc EXCEPT ![t] = "snapshot"]
    /\ UNCHANGED <<appended, appends_left, log_subscribers, queue, loop_ready, event_loop,
                   pl_entry, pl_todo, pl_raised, initial_logs, sub_at, delivered, dropped,
                   consumed, core_vars>>

\* lines 34-35: the loop test and the copy of the subscriber list
PushLogSnapshot(t) ==
    /\ pl_pc[t] = "snapshot"
    /\ IF event_loop = "running" /\ log_subscribers # <<>>
         THEN /\ pl_todo' = [pl_todo EXCEPT ![t] = log_subscribers]
              /\ pl_pc' = [pl_pc EXCEPT ![t] = "fanout"]
         ELSE /\ pl_todo' = pl_todo
              /\ pl_pc' = [pl_pc EXCEPT ![t] = Returned(t)]
    /\ UNCHANGED <<terminal_logs, appended, appends_left, log_subscribers, queue,
                   loop_ready, event_loop, pl_entry, pl_raised, initial_logs, sub_at,
                   delivered, dropped, consumed, core_vars>>

\* lines 36-39: call_soon_threadsafe(q.put_nowait, entry) for the next queue;
\* it raises RuntimeError when the loop was closed in the meantime
PushLogCallSoon(t) ==
    /\ pl_pc[t] = "fanout"
    /\ LET q    == Head(pl_todo[t])
           rest == Tail(pl_todo[t])
       IN  IF event_loop = "running"
             THEN /\ loop_ready' = Append(loop_ready, <<q, pl_entry[t]>>)
                  /\ pl_todo' = [pl_todo EXCEPT ![t] = rest]
                  /\ pl_pc' = [pl_pc EXCEPT ![t] = IF rest = <<>> THEN Returned(t) ELSE "fanout"]
                  /\ pl_raised' = pl_raised
             ELSE /\ loop_ready' = loop_ready
                  /\ IF BroadcastRaises(event_loop)
                       THEN /\ pl_raised' = [pl_raised EXCEPT ![t] = TRUE]
                            /\ pl_todo' = [pl_todo EXCEPT ![t] = <<>>]
                            /\ pl_pc' = [pl_pc EXCEPT ![t] = Returned(t)]
                       ELSE /\ pl_raised' = pl_raised
                            /\ pl_todo' = [pl_todo EXCEPT ![t] = rest]
                            /\ pl_pc' = [pl_pc EXCEPT ![t] =
                                            IF rest = <<>> THEN Returned(t) ELSE "fanout"]
    /\ UNCHANGED <<terminal_logs, appended, appends_left, log_subscribers, queue,
                   event_loop, pl_entry, initial_logs, sub_at, delivered, dropped,
                   consumed, core_vars>>

\* lines 261 and 62-72: index renders the page with tpl_ctx after its push_log
RenderPage ==
    /\ pl_pc["index"] = "render"
    /\ initial_logs' = Backfill(terminal_logs)
    /\ pl_pc' = [pl_pc EXCEPT !["index"] = "idle"]
    /\ UNCHANGED <<terminal_logs, appended, appends_left, log_subscribers, queue,
                   loop_ready, event_loop, pl_entry, pl_todo, pl_raised, sub_at,
                   delivered, dropped, consumed, core_vars>>

\* the event loop runs the oldest ready callback, q.put_nowait(entry)
LoopRunCallback ==
    /\ LoopFree
    /\ event_loop = "running"
    /\ loop_ready # <<>>
    /\ LET q    == Head(loop_ready)[1]
           e    == Head(loop_ready)[2]
           full == QueueFull(queue[q])
       IN  /\ queue' = [queue EXCEPT ![q] = PutNowait(queue[q], e)]
           /\ delivered' = IF full THEN delivered
                                   ELSE [delivered EXCEPT ![q] = Append(delivered[q], e)]
           /\ dropped' = IF full
                           THEN [dropped EXCEPT ![q] =
                                   Append(dropped[q], [e |-> e, qlen |-> Len(queue[q])])]
                           ELSE dropped
           /\ loop_ready' = AfterCallback(loop_ready, full)
    /\ UNCHANGED <<terminal_logs, appended, appends_left, log_subscribers, event_loop,
                   pl_pc, pl_entry, pl_todo, pl_raised, initial_logs, sub_at, consumed,
                   core_vars>>

\* lines 324-325: log_stream creates a queue and subscribes it
Subscribe ==
    /\ LoopFree
    /\ event_loop = "running"
    /\ \E q \in Queues :
         /\ sub_at[q] = -1
         /\ \A p \in Queues : p < q => sub_at[p] # -1
         /\ log_subscribers' = Append(log_subscribers, q)
         /\ sub_at' = [sub_at EXCEPT ![q] = appended]
    /\ UNCHANGED <<terminal_logs, appended, appends_left, queue, loop_ready, event_loop,
                   pl_pc, pl_entry, pl_todo, pl_raised, initial_logs, delivered, dropped,
                   consumed, core_vars>>

\* entries taken from the queues 1..n so far
RECURSIVE Gets(_)
Gets(n) == IF n = 0 THEN 0 ELSE consumed[n] + Gets(n - 1)

\* line 333: event_generator takes the oldest entry of its queue
Consume ==
    /\ LoopFree
    /\ event_loop = "running"
    /\ \E q \in Queues :
         /\ InList(log_subscribers, q)
         /\ queue[q] # <<>>
         /\ Gets(MaxQueues) < MaxGets
         /\ queue' = [queue EXCEPT ![q] = Tail(queue[q])]
         /\ consumed' = [consumed EXCEPT ![q] = consumed[q] + 1]
    /\ UNCHANGED <<terminal_logs, appended, appends_left, log_subscribers, loop_ready,
                   event_loop, pl_pc, pl_entry, pl_todo, pl_raised, initial_logs, sub_at,
                   delivered, dropped, core_vars>>

\* lines 330-339: the client went away, the queue is unsubscribed
Unsubscribe ==
    /\ LoopFree
    /\ event_loop = "running"
    /\ \E q \in Queues :
         /\ InList(log_subscribers, q)
         /\ log_subscribers' = Remove(log_subscribers, q)
    /\ UNCHANGED <<terminal_logs, appended, appends_left, queue, loop_ready, event_loop,
                   pl_pc, pl_entry, pl_todo, pl_raised, initial_logs, sub_at, delivered,
                   dropped, consumed, core_vars>>

\* the server shuts down: the loop is closed under the running threads
LoopClose ==
    /\ LoopFree
    /\ event_loop = "running"
    /\ event_loop' = "closed"
    /\ UNCHANGED <<terminal_logs, appended, appends_left, log_subscribers, queue,
                   loop_ready, pl_pc, pl_entry, pl_todo, pl_raised, initial_logs, sub_at,
                   delivered, dropped, consumed, core_vars>>

\* ------------------------------------------------------- specification
InitCore ==
    /\ run_pc = "idle"
    /\ side = "none"
    /\ limit_price = 0
    /\ amount = 0
    /\ tp_offset = 0
    /\ sl_offset = 0
    /\ attempt = 0
    /\ run_calls = <<>>
    /\ run_reqs = <<>>
    /\ run_log = <<>>
    /\ entry_status = "none"
    /\ executedQty = 0
    /\ positionAmt = 0
    /\ open_algos = {}
    /\ mon_pc = "start"
    /\ ticks = 0
    /\ pos_size = 0
    /\ algo_orders = <<>>
    /\ todo = <<>>
    /\ prev_pos_size = -1
    /\ mon_calls = <<>>
    /\ mon_log = <<>>
    /\ tick_history = <<>>

\* the log store with n entries appended one after the other; when presub,
\* queue 1 subscribed before the first of them and nothing was consumed
InitBus(n, presub, budget) ==
    /\ terminal_logs = Range(Max(n - LOG_MAX, 0) + 1, n)
    /\ appended = n
    /\ appends_left = budget
    /\ log_subscribers = IF presub THEN <<1>> ELSE <<>>
    /\ queue = [q \in Queues |->
                  IF presub /\ q = 1 THEN Range(1, IF n < QUEUE_MAXSIZE THEN n ELSE QUEUE_MAXSIZE)
                                     ELSE <<>>]
    /\ delivered = queue
    /\ dropped = [q \in Queues |-> <<>>]
    /\ consumed = [q \in Queues |-> 0]
    /\ sub_at = [q \in Queues |-> IF presub /\ q = 1 THEN 0 ELSE -1]
    /\ loop_ready = <<>>
    /\ event_loop = "running"
    /\ pl_pc = [t \in Threads |-> "idle"]
    /\ pl_entry = [t \in Threads |-> 0]
    /\ pl_todo = [t \in Threads |-> <<>>]
    /\ pl_raised = [t \in Threads |-> FALSE]
    /\ initial_logs = <<>>

Init == InitCore /\ InitBus(0, FALSE, 0)

Next ==
    \/ StartOrder
    \/ SetLeverage
    \/ PlaceEntry
    \/ PollStatus
    \/ PlaceTakeProfit
    \/ PlaceStopLoss
    \/ ExchangeFill
    \/ ExchangeEndsEntry
    \/ ExchangeTriggers
    \/ ExchangeClosesPosition
    \/ MonitorStart
    \/ GetPosition
    \/ GetAlgoOrders
    \/ CancelOrphan
    \/ LogTransition

Spec == Init /\ [][Next]_vars

\* the log store at the start of an explored run: empty, or holding
\* LOG_MAX - 1 entries that a subscriber has received and not yet read
InitStore ==
    /\ InitCore
    /\ \/ InitBus(0, FALSE, MaxAppends)
       \/ InitBus(LOG_MAX - 1, TRUE, MaxAppends)

\* the log store under all its producers: the run_order thread, the
\* position_monitor thread and index on the event loop thread
NextStore ==
    \/ \E t \in Threads : PushLogAppend(t)
    \/ \E t \in Threads : PushLogCheck(t)
    \/ \E t \in Threads : PushLogPop(t)
    \/ \E t \in Threads : PushLogSnapshot(t)
    \/ \E t \in Threads : PushLogCallSoon(t)
    \/ RenderPage
    \/ LoopRunCallback
    \/ Subscribe
    \/ Consume
    \/ Unsubscribe
    \/ LoopClose

SpecBus == InitStore /\ [][NextStore]_vars

\* the log store with the run_order thread as its only producer
NextSingle ==
    \/ PushLogAppend("run_order")
    \/ PushLogCheck("run_order")
    \/ PushLogPop("run_order")
    \/ PushLogSnapshot("run_order")
    \/ PushLogCallSoon("run_order")
    \/ LoopRunCallback
    \/ Subscribe
    \/ Consume
    \/ Unsubscribe
    \/ LoopClose

SpecSingle == InitStore /\ [][NextSingle]_vars

\* the log store with the dashboard (index on the loop thread) as its only
\* producer
NextPage ==
    \/ PushLogAppend("index")
    \/ PushLogCheck("index")
    \/ PushLogPop("index")
    \/ PushLogSnapshot("index")
    \/ PushLogCallSoon("index")
    \/ RenderPage
    \/ LoopRunCallback
    \/ Subscribe
    \/ Consume
    \/ Unsubscribe
    \/ LoopClose

SpecPage == InitStore /\ [][NextPage]_vars


\* ------------------------------------------------- run_order: properties
ExitOps == {"algo_TAKE_PROFIT", "algo_STOP"}
NonFillEnd == {"CANCELED", "REJECTED", "EXPIRED"}

\* number of entries of a level in a log
RECURSIVE CountLevel(_, _)
CountLevel(log, level) ==
    IF log = <<>> THEN 0
    ELSE (IF Head(log).level = level THEN 1 ELSE 0) + CountLevel(Tail(log), level)

\* C1: every conditional-order placement call of the run (take-profit or
\* stop, whatever its outcome) comes after a status poll of the same run
\* that returned FILLED.
C1_ExitsOnlyAfterFilled ==
    \A i \in 1..Len(run_calls) :
        run_calls[i].op \in ExitOps =>
            \E j \in 1..(i - 1) : run_calls[j] = Call("query_order", "FILLED")

\* a SELL run that polled PARTIALLY_FILLED, then FILLED, and placed both legs
C1_Witness ==
    /\ side = "SELL"
    /\ Len(run_calls) = 6
    /\ run_calls[3] = Call("query_order", "PARTIALLY_FILLED")
    /\ run_calls[4] = Call("query_order", "FILLED")
    /\ run_calls[5] = Call("algo_TAKE_PROFIT", "ok")
    /\ run_calls[6].op = "algo_STOP"

\* C3: a status poll that returned CANCELED, REJECTED or EXPIRED is the last
\* gateway call of the run, the run has ended, its log holds exactly one
\* ERROR entry, and it issued no conditional-order placement call.
C3_NonFillEndAborts ==
    \A i \in 1..Len(run_calls) :
        (run_calls[i].op = "query_order" /\ run_calls[i].res \in NonFillEnd) =>
            /\ i = Len(run_calls)
            /\ run_pc = "aborted_status"
            /\ CountLevel(run_log, "ERROR") = 1
            /\ \A j \in 1..Len(run_calls) : run_calls[j].op \notin ExitOps

\* the entry is REJECTED on the second poll, after a non-terminal first poll
C3_Witness ==
    /\ run_pc = "aborted_status"
    /\ Len(run_calls) = 4
    /\ run_calls[3] = Call("query_order", "NEW")
    /\ run_calls[4] = Call("query_order", "REJECTED")

\* ------------------------------------------ position_monitor: properties
\* cancellation attempts order o received in the current tick
Attempts(o) ==
    Cardinality({i \in 1..Len(mon_calls) :
                    mon_calls[i].op = "DELETE algoOrder" /\ mon_calls[i].id = o})

\* occurrences of o in the rest of the for loop
Pending(o) == Cardinality({i \in 1..Len(todo) : todo[i] = o})

\* C2 (as claimed): the monitor never cancels a conditional order while the
\* exchange position is nonzero: every DELETE that the exchange accepted was
\* served at a moment the position was 0.
C2_NoCancelWhileInPosition ==
    \A i \in 1..Len(mon_calls) :
        (mon_calls[i].op = "DELETE algoOrder" /\ mon_calls[i].res = "ok") =>
            mon_calls[i].pos = 0

\* C4: in a tick that fetched size 0 and a non-empty set of open conditional
\* orders, every fetched order has received exactly one cancellation attempt
\* or is still ahead in the loop, and the loop is left only when no order is
\* ahead: a failed attempt does not stop the loop.
C4_EveryOrphanAttemptedOnce ==
    (pos_size = 0 /\ algo_orders # <<>>) =>
        /\ mon_pc \in {"cancel", "transition", "sleep"}
        /\ mon_pc # "cancel" => todo = <<>>
        /\ \A k \in 1..Len(algo_orders) :
              Attempts(algo_orders[k]) + Pending(algo_orders[k]) = 1

\* the second tick, with no size transition (previous size 0), fetched two
\* orphans; the first cancellation failed and the second was still attempted
C4_Witness ==
    /\ ticks = 2
    /\ prev_pos_size = 0
    /\ pos_size = 0
    /\ Len(algo_orders) = 2
    /\ mon_pc = "transition"
    /\ Len(mon_calls) = 4
    /\ mon_calls[3].res = "Exception"
    /\ mon_calls[4].op = "DELETE algoOrder"

\* C5: in a tick that fetched a position size greater than 0 the monitor
\* issues no cancellation call.
C5_NoCancelWithPosition ==
    pos_size > 0 =>
        \A i \in 1..Len(mon_calls) : mon_calls[i].op # "DELETE algoOrder"

\* a tick fetched a short position and two open conditional orders and
\* went on to the transition step
C5_Witness ==
    /\ positionAmt < 0
    /\ pos_size > 0
    /\ Len(algo_orders) = 2
    /\ mon_pc = "transition"

\* ------------------------------------------------- log store: properties
Min(a, b) == IF a < b THEN a ELSE b

Subscribed(q) == InList(log_subscribers, q)

\* a list of entries in the order of their appends, none twice
Increasing(list) == \A i \in 1..(Len(list) - 1) : list[i] < list[i + 1]

\* occurrences of entry e in a list of entries
Times(list, e) == Cardinality({i \in 1..Len(list) : list[i] = e})

\* times entry e was refused by queue q
Drops(q, e) == Cardinality({i \in 1..Len(dropped[q]) : dropped[q][i].e = e})

\* entries appended in the explored run
RunEntries == (appended - (MaxAppends - appends_left) + 1)..appended

\* the fan-out of entry e to queue q is still ahead: its producer has not
\* reached the call_soon_threadsafe for q, or the callback is still ready
InFlight(q, e) ==
    \/ \E t \in Threads :
          /\ pl_entry[t] = e
          /\ \/ pl_pc[t] \in {"check", "pop", "snapshot"}
             \/ pl_pc[t] = "fanout" /\ InList(pl_todo[t], q)
    \/ InList(loop_ready, <<q, e>>)

\* no thread is between its append and its eviction
NoAppendInProgress == \A t \in Threads : pl_pc[t] \notin {"check", "pop"}

\* C6 (as claimed): each subscriber queue receives the entries in the order
\* in which they were inserted in the retained log (entries are numbered in
\* that order).
C6_SingleTotalOrder == \A q \in Queues : Increasing(delivered[q])

\* C7 (as claimed): once the appends made so far have returned from their
\* eviction step, the log holds exactly the last min(n, 200) of the n
\* entries appended, oldest first.
C7_RetainsLast200 ==
    NoAppendInProgress =>
        terminal_logs = Range(Max(appended - LOG_MAX, 0) + 1, appended)

\* C8 (as claimed): a queue that subscribed when n entries had been appended
\* has received, first of all, the min(n, 50) most recent of them.
C8_BackfillOnChannel ==
    \A q \in Queues :
        sub_at[q] # -1 =>
            LET k == Min(sub_at[q], BACKFILL)
            IN  /\ Len(delivered[q]) >= k
                /\ \A i \in 1..k : delivered[q][i] = sub_at[q] - k + i

\* C8 (amended): the page index renders gets, as initial_logs, the min(n, 50)
\* most recent entries of the n retained ones, oldest first; the queue
\* log_stream subscribes starts empty.
C8_BackfillOnPage ==
    [][ /\ (pl_pc["index"] = "render" /\ pl_pc'["index"] = "idle") =>
             LET k == Min(Len(terminal_logs), BACKFILL)
             IN  /\ Len(initial_logs') = k
                 /\ \A i \in 1..k :
                       initial_logs'[i] = terminal_logs[Len(terminal_logs) - k + i]
        /\ \A q \in Queues :
             (sub_at[q] = -1 /\ sub_at'[q] # -1) =>
                 queue'[q] = <<>> /\ delivered'[q] = <<>> ]_vars

\* a page was rendered with 50 entries out of a longer log, and a queue that
\* subscribed afterwards has received nothing
C8_Witness ==
    /\ Len(initial_logs) = BACKFILL
    /\ initial_logs[BACKFILL] = LOG_MAX
    /\ Len(terminal_logs) = LOG_MAX
    /\ sub_at[2] = LOG_MAX
    /\ delivered[2] = <<>>

\* C9 (as claimed): under a single producer, every entry appended after the
\* subscription of a queue, once its fan-out to the queue is over, was put
\* on the queue exactly once, and the queue received its entries in append
\* order.
C9_ExactlyOnceInOrder ==
    event_loop = "running" =>
        \A q \in Queues :
            Subscribed(q) =>
                /\ Increasing(delivered[q])
                /\ \A e \in RunEntries :
                      (e > sub_at[q] /\ ~InFlight(q, e)) => Times(delivered[q], e) = 1

\* C9 (amended): under a single producer and a running loop, every entry
\* appended after the subscription of a queue, once its fan-out to the queue
\* is over, was either put on the queue once or refused once, and refused
\* only when the queue held 200 entries; the queue received its entries in
\* append order, and it holds nothing but the received entries not yet read.
C9_AtMostOnceInOrder ==
    event_loop = "running" =>
        \A q \in Queues :
            Subscribed(q) =>
                /\ Increasing(delivered[q])
                /\ \A e \in RunEntries :
                      (e > sub_at[q] /\ ~InFlight(q, e)) =>
                          Times(delivered[q], e) + Drops(q, e) = 1
                /\ \A i \in 1..Len(dropped[q]) : dropped[q][i].qlen = QUEUE_MAXSIZE
                /\ queue[q] = SubSeq(delivered[q], consumed[q] + 1, Len(delivered[q]))

\* queue 1, full, lost the last entry; queue 2 subscribed in between and got it
C9_Witness ==
    /\ event_loop = "running"
    /\ Subscribed(1) /\ Subscribed(2)
    /\ Len(dropped[1]) = 1
    /\ delivered[2] = <<dropped[1][1].e>>
    /\ Len(delivered[1]) = QUEUE_MAXSIZE

\* C10: no exception leaves push_log and every step of a thread inside
\* push_log can be taken whatever the state of the queues and of the loop;
\* a queue never holds more than 200 entries and holds exactly the received
\* entries not yet read, so a refused entry changes nothing in it; a refused
\* entry is in the retained log unless evicted since; and while the loop
\* runs it still reaches every other subscribed queue that subscribed
\* before its append.
C10_AppendNeverFails ==
    /\ \A t \in Threads :
          /\ ~pl_raised[t]
          /\ pl_pc[t] \in {"check", "pop", "snapshot", "fanout"} =>
                ENABLED (\/ PushLogCheck(t) \/ PushLogPop(t)
                         \/ PushLogSnapshot(t) \/ PushLogCallSoon(t))
    /\ \A q \in Queues :
          /\ Len(queue[q]) <= QUEUE_MAXSIZE
          /\ queue[q] = SubSeq(delivered[q], consumed[q] + 1, Len(delivered[q]))
          /\ \A i \in 1..Len(dropped[q]) :
                LET e == dropped[q][i].e
                IN  /\ Times(delivered[q], e) = 0
                    /\ InList(terminal_logs, e) \/ e < terminal_logs[1]
                    /\ event_loop = "running" =>
                          \A p \in Queues \ {q} :
                              (Subscribed(p) /\ sub_at[p] < e) =>
                                  \/ InFlight(p, e)
                                  \/ Times(delivered[p], e) + Drops(p, e) = 1

\* the producer has returned from the push_log whose entry the full queue 1
\* refused; the entry is retained and queue 2 holds it
C10_Witness ==
    /\ pl_pc["run_order"] = "idle"
    /\ appends_left = 0
    /\ Len(queue[1]) = QUEUE_MAXSIZE
    /\ Len(dropped[1]) = 1
    /\ InList(terminal_logs, dropped[1][1].e)
    /\ InList(queue[2], dropped[1][1].e)

\* size read by the last tick of h that did not raise, -1 when there is none
RECURSIVE LastSize(_)
LastSize(h) ==
    IF h = <<>> THEN -1
    ELSE IF h[Len(h)].ok THEN h[Len(h)].size
    ELSE LastSize(SubSeq(h, 1, Len(h) - 1))

\* C11: a tick that raises (on the position read, on the conditional-order
\* read or while processing) never ends the monitor loop: the monitor is
\* always at a position of the loop and, asleep, starts the next tick; the
\* stored previous size is always the size the last tick that did not raise
\* read, so a raising tick leaves it as it was and the next tick that does
\* not raise compares against it
C11_FailedTickKeepsLoop ==
    /\ mon_pc \in {"start", "sleep", "get_algo", "cancel", "transition"}
    /\ (mon_pc = "sleep" /\ ticks < MaxTicks) => ENABLED GetPosition
    /\ prev_pos_size = LastSize(tick_history)

\* a tick that read size 0, a tick that raised, then a tick that read a
\* position and logged the opening against the size of the first
C11_Witness ==
    /\ Len(tick_history) = 3
    /\ tick_history[1] = Tick(TRUE, 0)
    /\ ~tick_history[2].ok
    /\ tick_history[3].ok /\ tick_history[3].size > 0
    /\ mon_log = <<Entry("INFO", "Position OPENED")>>

\* does the log hold an entry of level WARN or ERROR
HasProblemEntry(log) == \E i \in 1..Len(log) : log[i].level \in {"WARN", "ERROR"}

\* C12: every failure is visible in the log: a run that a gateway error
\* aborted has pushed at least one WARN or ERROR entry, and so has every
\* monitor tick that raised
C12_EveryFailureLogged ==
    /\ run_pc = "aborted_error" => HasProblemEntry(run_log)
    /\ (mon_pc = "sleep" /\ tick_history # <<>> /\ ~tick_history[Len(tick_history)].ok)
          => HasProblemEntry(mon_log)

\* the conditional orders the run submitted
AlgoReqs == {i \in 1..Len(run_reqs) : run_reqs[i].type \in {"TAKE_PROFIT", "STOP"}}

\* C13: the trigger the run sends with its take-profit order is, to two
\* decimals, price + tp_offset for BUY and price - tp_offset for SELL, the
\* trigger of its stop-loss order price - sl_offset for BUY and
\* price + sl_offset for SELL, and both orders are on the side opposite
\* to the entry
C13_TriggersAndExitSide ==
    \A i \in AlgoReqs :
      LET r == run_reqs[i] IN
        /\ r.side \in Sides \ {side}
        /\ r.type = "TAKE_PROFIT" =>
             r.triggerPrice = fmt_price(IF side = "BUY" THEN limit_price + tp_offset
                                                        ELSE limit_price - tp_offset)
        /\ r.type = "STOP" =>
             r.triggerPrice = fmt_price(IF side = "BUY" THEN limit_price - sl_offset
                                                        ELSE limit_price + sl_offset)

\* BUY at 60000 with tp_offset 1000 and sl_offset 300: both legs sent, as
\* SELL orders triggering at 61000.00 and 59700.00
C13_Witness ==
    /\ side = "BUY" /\ limit_price = 60000000
    /\ tp_offset = 1000000 /\ sl_offset = 300000
    /\ Len(run_reqs) = 3
    /\ run_reqs[2].type = "TAKE_PROFIT" /\ run_reqs[2].side = "SELL"
    /\ run_reqs[2].triggerPrice = 6100000
    /\ run_reqs[3].type = "STOP" /\ run_reqs[3].side = "SELL"
    /\ run_reqs[3].triggerPrice = 5970000

\* the operations that may follow operation op in one run
MayFollow(op) ==
    CASE op = "change_leverage"  -> {"new_order"}
      [] op = "new_order"        -> {"query_order"}
      [] op = "query_order"      -> {"query_order", "algo_TAKE_PROFIT"}
      [] op = "algo_TAKE_PROFIT" -> {"algo_STOP"}
      [] OTHER                   -> {}

\* how many times the run called op
CallCount(op) == Cardinality({i \in 1..Len(run_calls) : run_calls[i].op = op})

\* C14: the gateway calls of one run are a prefix of: set leverage, submit
\* the entry, one or more status polls, place take-profit, place stop-loss;
\* each of the four calls other than the poll is made at most once, and a
\* call that raised is the last call of the run
C14_CallsFormPrefix ==
    /\ \A i \in 1..Len(run_calls) :
         /\ i = 1 => run_calls[i].op = "change_leverage"
         /\ i > 1 => run_calls[i].op \in MayFollow(run_calls[i - 1].op)
         /\ run_calls[i].res \in Errors => i = Len(run_calls) /\ run_pc = "aborted_error"
    /\ \A op \in {"change_leverage", "new_order", "algo_TAKE_PROFIT", "algo_STOP"} :
         CallCount(op) <= 1

\* a completed run: leverage, entry, two polls, both legs
C14_Witness ==
    /\ run_pc = "complete"
    /\ Len(run_calls) = 6
    /\ CallCount("query_order") = 2
    /\ run_calls[6] = Call("algo_STOP", "ok")

\* how many times the run pushed entry e
Pushed(e) == Cardinality({i \in 1..Len(run_log) : run_log[i] = e})

\* the conditional orders of a type the run submitted and the exchange accepted
Placed(type) ==
    {i \in AlgoReqs : run_reqs[i].type = type /\ run_calls[i + 1 + CallCount("query_order")].res = "ok"}

\* C15: the run pushes the SUCCESS summary "ALL ORDERS COMPLETE" at most
\* once and only when its entry was polled FILLED and exactly two
\* conditional orders were placed, one TAKE_PROFIT and one STOP, both
\* accepted, both reduce-only and both for the quantity of the entry order;
\* a run in which the placement of a leg raised never pushes it
C15_CompleteOnlyAfterBothLegs ==
    /\ Pushed(Entry("SUCCESS", "ALL ORDERS COMPLETE")) <= 1
    /\ Pushed(Entry("SUCCESS", "ALL ORDERS COMPLETE")) = 1 =>
         /\ \E j \in 1..Len(run_calls) : run_calls[j] = Call("query_order", "FILLED")
         /\ Cardinality(AlgoReqs) = 2
         /\ Cardinality(Placed("TAKE_PROFIT")) = 1
         /\ Cardinality(Placed("STOP")) = 1
         /\ \A i \in AlgoReqs :
              /\ run_reqs[i].reduceOnly
              /\ run_reqs[1].type = "LIMIT"
              /\ run_reqs[i].quantity = run_reqs[1].quantity
    /\ (\E j \in 1..Len(run_calls) :
          run_calls[j].op \in ExitOps /\ run_calls[j].res \in Errors)
         => Pushed(Entry("SUCCESS", "ALL ORDERS COMPLETE")) = 0

\* a completed run with the default margin at 60000: entry and both legs
\* for 0.275
C15_Witness ==
    /\ run_pc = "complete"
    /\ Pushed(Entry("SUCCESS", "ALL ORDERS COMPLETE")) = 1
    /\ amount = AMOUNT /\ limit_price = 60000000
    /\ Len(run_reqs) = 3
    /\ \A i \in 1..3 : run_reqs[i].quantity = 275

\* the statuses on which the fill-wait loop neither breaks nor returns
NonTerminal == Statuses \ {"FILLED", "CANCELED", "REJECTED", "EXPIRED"}

\* the polls of the run that returned status st
Polled(st) == {i \in 1..Len(run_calls) : run_calls[i] = Call("query_order", st)}

\* C16: a poll that returns PARTIALLY_FILLED, or any other status outside
\* FILLED, CANCELED, REJECTED and EXPIRED, neither ends the run nor starts
\* the placement of the protective orders: the next call of the run, if
\* any, is another poll and until then the run is in the fill-wait loop;
\* the run pushes one WARN entry for each PARTIALLY_FILLED reply
C16_NonTerminalKeepsWaiting ==
    /\ \A st \in NonTerminal : \A i \in Polled(st) :
         IF i < Len(run_calls) THEN run_calls[i + 1].op = "query_order"
                               ELSE run_pc = "poll"
    /\ CountLevel(run_log, "WARN") = Cardinality(Polled("PARTIALLY_FILLED"))

\* two PARTIALLY_FILLED replies in a row, the run still waiting
C16_Witness ==
    /\ run_pc = "poll"
    /\ Len(run_calls) = 4
    /\ run_calls[3] = Call("query_order", "PARTIALLY_FILLED")
    /\ run_calls[4] = Call("query_order", "PARTIALLY_FILLED")
    /\ CountLevel(run_log, "WARN") = 2

\* ------------------------------------------- run_order: termination
\* a step of the run_order thread
RunStep ==
    \/ SetLeverage
    \/ PlaceEntry
    \/ PollStatus
    \/ PlaceTakeProfit
    \/ PlaceStopLoss

\* one run and the exchange, the thread of the run always scheduled again
\* and every gateway call returning or raising
NextRun ==
    \/ StartOrder
    \/ SetLeverage
    \/ PlaceEntry
    \/ PollStatus
    \/ PlaceTakeProfit
    \/ PlaceStopLoss
    \/ ExchangeFill
    \/ ExchangeEndsEntry
    \/ ExchangeTriggers
    \/ ExchangeClosesPosition

SpecRun == Init /\ [][NextRun]_vars /\ WF_vars(RunStep)

\* the run has returned
RunEnded == run_pc \in {"complete", "aborted_status", "aborted_error"}

\* a poll of the run returned a status that ends the fill-wait loop
TerminalReply ==
    \E i \in 1..Len(run_calls) :
       run_calls[i].op = "query_order" /\ run_calls[i].res \in Statuses \ NonTerminal

\* C17: a started run ends or waits in the fill-wait loop; once a poll has
\* returned FILLED, CANCELED, REJECTED or EXPIRED the run eventually ends;
\* and a run ends only after such a reply or after a gateway call raised,
\* so a run whose polls keep returning other statuses without raising
\* never ends (there is no fill timeout)
C17_EndsOnlyOnTerminalReply ==
    /\ [](RunEnded =>
            \/ TerminalReply
            \/ \E i \in 1..Len(run_calls) : run_calls[i].res \in Errors)
    /\ (run_pc # "idle") ~> (RunEnded \/ run_pc = "poll")
    /\ TerminalReply ~> RunEnded

\* a run still waiting after every poll the bound allows returned a status
\* that is not terminal, none of its calls having raised
C17_Witness ==
    /\ run_pc = "poll"
    /\ attempt = MaxPolls
    /\ Cardinality(Polled("NEW")) + Cardinality(Polled("PARTIALLY_FILLED")) = MaxPolls

\* ------------------------------------- position_monitor: transition logs
\* the entries a step of the monitor pushes
NewEntries == SubSeq(mon_log', Len(mon_log) + 1, Len(mon_log'))

\* C18: the step that ends a tick which did not raise pushes 'Position
\* OPENED' exactly when the size read is nonzero and the stored previous
\* size is 0, 'Position CLOSED' exactly when the size read is 0 and the
\* stored previous size is nonzero, and nothing when no size is stored yet
\* (the first such tick); it then stores the size read as the previous
\* size, without issuing a gateway call; whether the tick cancels was
\* decided before, from the size and the orders read alone
C18_TransitionLogs ==
    [][ /\ (mon_pc = "transition" /\ mon_pc' = "sleep") =>
             /\ InList(NewEntries, Entry("INFO", "Position OPENED"))
                  <=> (prev_pos_size = 0 /\ pos_size # 0)
             /\ InList(NewEntries, Entry("SUCCESS", "Position CLOSED"))
                  <=> (prev_pos_size \notin {-1, 0} /\ pos_size = 0)
             /\ Len(NewEntries) <= 1
             /\ prev_pos_size = -1 => NewEntries = <<>>
             /\ prev_pos_size' = pos_size
             /\ mon_calls' = mon_calls /\ open_algos' = open_algos
        /\ (mon_pc = "get_algo" /\ mon_pc' \in {"cancel", "transition"}) =>
             (mon_pc' = "cancel" <=> (pos_size = 0 /\ open_algos # {}))
      ]_vars

\* a tick that cancelled orphans and then logged the closing of the
\* position the previous tick had seen open
C18_Witness ==
    /\ mon_pc = "sleep"
    /\ Len(tick_history) >= 2
    /\ tick_history[Len(tick_history)] = Tick(TRUE, 0)
    /\ InList(mon_log, Entry("SUCCESS", "All orphan algo orders cancelled"))
    /\ mon_log[Len(mon_log)] = Entry("SUCCESS", "Position CLOSED")

\* ------------------------------------------ run_order: a raising poll
\* a status poll of the run raised
PollRaised ==
    \E i \in 1..Len(run_calls) :
       run_calls[i].op = "query_order" /\ run_calls[i].res \in Errors

\* C19: a status poll that raises ends the run: the run has pushed an ERROR
\* entry and makes no further step; it has called nothing but leverage,
\* entry and polls, so it neither cancelled its entry order nor submitted a
\* protective order, and no conditional order is open; an entry order still
\* pending can fill all the same
C19_PollErrorAbandonsEntry ==
    PollRaised =>
      /\ run_pc = "aborted_error"
      /\ ~ENABLED RunStep
      /\ CountLevel(run_log, "ERROR") >= 1
      /\ \A i \in 1..Len(run_calls) :
           run_calls[i].op \in {"change_leverage", "new_order", "query_order"}
      /\ AlgoReqs = {}
      /\ open_algos = {}
      /\ entry_status \in {"NEW", "PARTIALLY_FILLED"} => ENABLED ExchangeFill

\* the first poll raised; the entry order has filled since and the position
\* is open with no conditional order
C19_Witness ==
    /\ PollRaised
    /\ Len(run_calls) = 3
    /\ entry_status = "FILLED"
    /\ positionAmt # 0
    /\ open_algos = {}

\* --------------------------------- position_monitor: end of the cleanup
\* positions of entry e in the entries of the current tick
At(e) == {i \in 1..Len(mon_log) : mon_log[i] = e}

\* positions of the entries _cancel_algo pushed in the current tick
CancelEntries == At(CancelLog("ok")) \cup At(CancelLog("Exception"))

\* cancellation attempts of the current tick
Deletes == {i \in 1..Len(mon_calls) : mon_calls[i].op = "DELETE algoOrder"}

\* C20: in a tick that cleans up, SUCCESS 'All orphan algo orders
\* cancelled' is not pushed while attempts remain and is pushed exactly
\* once when the last attempt has been made, after the entry of every
\* attempt, whatever the attempts' outcomes; a tick without attempts never
\* pushes it
C20_AllCancelledOnceAfterLoop ==
    LET done == At(Entry("SUCCESS", "All orphan algo orders cancelled")) IN
    /\ (mon_pc = "cancel" \/ Deletes = {}) => done = {}
    /\ (mon_pc \in {"transition", "sleep"} /\ Deletes # {}) =>
         /\ Cardinality(done) = 1
         /\ Cardinality(Deletes) = Len(algo_orders)
         /\ Cardinality(CancelEntries) = Len(algo_orders)
         /\ \A i \in CancelEntries : \A j \in done : i < j

\* both attempts of a tick failed, the SUCCESS entry follows the two ERROR
\* entries and both orders are still open
C20_Witness ==
    /\ mon_pc = "transition"
    /\ Cardinality(At(CancelLog("Exception"))) = 2
    /\ mon_log[Len(mon_log)] = Entry("SUCCESS", "All orphan algo orders cancelled")
    /\ mon_log[Len(mon_log) - 1] = Entry("ERROR", "Failed to auto-cancel algo")
    /\ open_algos = {1, 2}

====
